---- MODULE Spec2Model ----
(***************************************************************************)
(* A model of aioice's TURN client (src/aioice/turn.py).                   *)
(*                                                                         *)
(* The client runs on one asyncio event loop.  Every action below is one   *)
(* uninterrupted run of a coroutine: from the point where it is called or  *)
(* resumed up to its next suspension (an await on a pending future) or its *)
(* end.  The server, the retransmission timer and the code calling the     *)
(* client are the environment.                                             *)
(***************************************************************************)
EXTENDS Integers, Sequences, FiniteSets, TLC

(***************************************************************************)
(* Bounds of the model.                                                    *)
(***************************************************************************)
MaxConnects == 1      \* calls of connect()
MaxDeletes == 2       \* calls of delete()
MaxSends == 2         \* calls of send_data()
NumPeers == 2         \* distinct peer addresses
MaxRefreshes == 1     \* REFRESH requests of the background loop
MaxFrames == 2        \* frames in a byte stream
MaxPayload == 1       \* payload bytes of a ChannelData frame
NumNonces == 1        \* distinct NONCE values the server hands out

(***************************************************************************)
(* Program constants.                                                      *)
(***************************************************************************)
ChannelBase == 16384          \* 0x4000, the first channel number
Lifetime == 600               \* the default lifetime of create_turn_endpoint
UDP_TRANSPORT == 285212672    \* 0x11000000

None == 0                     \* Python's None for the integer-valued fields
NoKey == <<>>                 \* integrity_key = None
NoTask == <<>>                \* refresh_handle = None
username == "user"
password == "pass"
receiver == TRUE              \* TurnTransport.__init__ registers the receiver

Peers == 1..NumPeers
Nonces == 1..NumNonces
Realms == {1}                 \* the server's realm, e.g. "example.org"

Connects == {<<"connect", i>> : i \in 1..MaxConnects}
Deletes == {<<"delete", i>> : i \in 1..MaxDeletes}
Sends == {<<"send", i>> : i \in 1..MaxSends}
Refreshes == {<<"refresh", i>> : i \in 1..MaxConnects}
Calls == Connects \cup Deletes \cup Sends \cup Refreshes

VARIABLES
    channel_to_peer,    \* self.channel_to_peer
    peer_to_channel,    \* self.peer_to_channel
    channel_number,     \* self.channel_number
    integrity_key,      \* self.integrity_key
    nonce,              \* self.nonce
    realm,              \* self.realm
    refresh_handle,     \* self.refresh_handle: None or the refresh task
    relayed_address,    \* self.relayed_address: None or 1 (the address given)
    transactions,       \* self.transactions: transaction id -> Transaction
    pc,                 \* where each coroutine stands
    tid,                \* request.transaction_id of each coroutine's request
    exc,                \* the exception a coroutine ended with, "" for none
    must_cancel,        \* tasks whose cancel() was called and not yet delivered
    sent,               \* the requests handed to the transport
    written,            \* the ChannelData frames handed to the transport
    connection_made,    \* calls of protocol.connection_made
    connection_lost,    \* calls of receiver.connection_lost(None)
    locals,             \* send_data's addr and channel, per call
    exits,              \* how each call of request() ended: <<id, how>>
    buffer,             \* TurnStreamMixin.buffer
    stream,             \* bytes of the TCP stream not yet received
    frames,             \* the frames the stream was made of
    dispatched,         \* the slices data_received passed to datagram_received
    split,              \* a call of data_received ended inside a frame
    incoming,           \* the datagram last passed to datagram_received
    delivered,          \* what that call passed to receiver.datagram_received
    parsed              \* that call reached stun.parse_message

clientVars == <<channel_to_peer, peer_to_channel, channel_number, integrity_key,
                nonce, realm, refresh_handle, relayed_address, transactions,
                pc, tid, exc, must_cancel, sent, written,
                connection_made, connection_lost, locals, exits>>
streamVars == <<buffer, stream, frames, dispatched, split>>
datagramVars == <<incoming, delivered, parsed>>
vars == <<clientVars, streamVars, datagramVars>>

(***************************************************************************)
(* STUN messages and transactions.                                         *)
(***************************************************************************)
Absent == -1                  \* an attribute the message does not carry

\* stun.Message(message_method=..., message_class=REQUEST) with a random id.
Message(method, t) ==
    [message_method |-> method, transaction_id |-> t,
     LIFETIME |-> Absent, REQUESTED_TRANSPORT |-> Absent,
     CHANNEL_NUMBER |-> Absent, XOR_PEER_ADDRESS |-> Absent,
     USERNAME |-> "", NONCE |-> None, REALM |-> None,
     MESSAGE_INTEGRITY |-> NoKey, FINGERPRINT |-> FALSE]

\* What the future of a Transaction holds.
Pending == [cls |-> "PENDING", code |-> 0, NONCE |-> None, REALM |-> None,
            XOR_RELAYED_ADDRESS |-> None]
Cancelled == [Pending EXCEPT !.cls = "CANCELLED"]
TransactionTimeout == [Pending EXCEPT !.cls = "TIMEOUT"]
Success(relayed) ==
    [Pending EXCEPT !.cls = "RESPONSE", !.XOR_RELAYED_ADDRESS = relayed]
Error(code, n, r, relayed) ==
    [cls |-> "ERROR", code |-> code, NONCE |-> n, REALM |-> r,
     XOR_RELAYED_ADDRESS |-> relayed]

\* The answers the server can give to a request.  Attributes the client never
\* reads for that method are left out.
ServerResponses(method) ==
    IF method = "ALLOCATE"
    THEN {Success(1)}
         \cup {Error(401, n, r, None) : n \in Nonces, r \in Realms \cup {None}}
         \cup {Error(403, None, None, a) : a \in {None, 1}}
    ELSE {Success(None), Error(403, None, None, None)}

\* random_transaction_id(): an id no message has carried before, written as
\* the coroutine that draws it and the number of ids it drew before.
NoId == <<>>
random_transaction_id(p) ==
    <<p, Cardinality({m \in sent : m.transaction_id[1] = p})>>

make_integrity_key(u, r, p) == <<u, r, p>>

\* __add_authentication
AddAuthentication(request, key, n, r) ==
    [request EXCEPT !.USERNAME = username, !.NONCE = n, !.REALM = r,
                    !.MESSAGE_INTEGRITY = key, !.FINGERPRINT = TRUE]

\* request(), lines 180-181: credentials are attached when a key is known.
OutgoingBare(request, key, n, r) == request
Outgoing(request, key, n, r) ==
    IF key # NoKey THEN AddAuthentication(request, key, n, r) ELSE request

\* request(), lines 183-184: the transaction is registered.
Register(reg, request) ==
    [t \in DOMAIN reg \cup {request.transaction_id} |->
        IF t = request.transaction_id
        THEN [request |-> request, future |-> Pending]
        ELSE reg[t]]

\* request(), lines 187-188: the finally clause.
RequestNoFinally(reg, t) ==
    IF reg[t].future.cls = "RESPONSE" THEN [x \in DOMAIN reg \ {t} |-> reg[x]]
    ELSE reg
RequestFinally(reg, t) == [x \in DOMAIN reg \ {t} |-> reg[x]]

\* Task.cancel() on the future a task awaits: a pending future is cancelled,
\* a completed one keeps its result.
CancelFuture(reg, t) ==
    IF t \in DOMAIN reg /\ reg[t].future.cls = "PENDING"
    THEN [reg EXCEPT ![t].future = Cancelled]
    ELSE reg

Suspended == {"alloc1", "alloc2", "binding", "requesting", "waiting"}
Live(task) == pc[task] \in {"sleeping", "requesting"}

RefreshOf(c) == <<"refresh", c[2]>>

\* Calls of one kind are interchangeable: they are taken in order.
NextIdle(c, kind) ==
    /\ pc[c] = "idle"
    /\ \A k \in kind : k[2] < c[2] => pc[k] # "idle"

\* Peer addresses are interchangeable: new ones are taken in order.
NextPeer(addr) == \A a \in Peers : a < addr => a \in DOMAIN peer_to_channel

ClientInit ==
    /\ channel_to_peer = <<>>
    /\ peer_to_channel = <<>>
    /\ channel_number = ChannelBase
    /\ integrity_key = NoKey
    /\ nonce = None
    /\ realm = None
    /\ refresh_handle = NoTask
    /\ relayed_address = None
    /\ transactions = [t \in {} |-> 0]
    /\ pc = [c \in Calls |-> IF c \in Refreshes THEN "none" ELSE "idle"]
    /\ tid = [c \in Calls |-> NoId]
    /\ exc = [c \in Calls |-> ""]
    /\ must_cancel = {}
    /\ sent = {}
    /\ written = {}
    /\ connection_made = 0
    /\ connection_lost = 0
    /\ locals = [s \in Sends |-> [addr |-> 0, channel |-> 0]]
    /\ exits = {}

\* What stun.parse_message gives for bytes that are no STUN message.
Unparseable ==
    [transaction_id |-> NoId, response |-> [Pending EXCEPT !.cls = "ValueError"]]

\* No datagram was received yet.
NoDatagram == [data |-> <<>>, message |-> Unparseable]

DatagramInit ==
    /\ incoming = NoDatagram
    /\ delivered = <<>>
    /\ parsed = FALSE

Init ==
    /\ ClientInit
    /\ DatagramInit
    /\ buffer = <<>>
    /\ stream = <<>>
    /\ frames = <<>>
    /\ dispatched = <<>>
    /\ split = FALSE

(***************************************************************************)
(* request(): what its caller sees when transaction.run() ends.            *)
(***************************************************************************)
\* The exception transaction.run() raises for a failed future: a
\* TransactionFailed carrying the error response, or a TransactionTimeout;
\* `exc` records either as the class they share.
FailureOf(future) == "TransactionError"

ExitHow(future) == IF future.cls = "RESPONSE" THEN "returned" ELSE "raised"

\* A coroutine ends with an exception.
Raise(c, e) ==
    /\ pc' = [pc EXCEPT ![c] = "raised"]
    /\ exc' = [exc EXCEPT ![c] = e]

(***************************************************************************)
(* connect(), called through TurnTransport._connect().                     *)
(***************************************************************************)
AllocateRequest(t) ==
    [Message("ALLOCATE", t) EXCEPT !.LIFETIME = Lifetime,
                                   !.REQUESTED_TRANSPORT = UDP_TRANSPORT]

\* Lines 77-84: the first ALLOCATE is sent and connect() waits for its answer.
ConnectCall(c) ==
    /\ NextIdle(c, Connects)
    /\ LET request == AllocateRequest(random_transaction_id(c))
           out == Outgoing(request, integrity_key, nonce, realm)
       IN /\ request.transaction_id \notin DOMAIN transactions
          /\ transactions' = Register(transactions, out)
          /\ sent' = sent \cup {out}
          /\ tid' = [tid EXCEPT ![c] = request.transaction_id]
    /\ pc' = [pc EXCEPT ![c] = "alloc1"]
    /\ UNCHANGED <<channel_to_peer, peer_to_channel, channel_number,
                   integrity_key, nonce, realm, refresh_handle,
                   relayed_address, exc, must_cancel, written,
                   connection_made, connection_lost, locals, exits,
                   streamVars, datagramVars>>

\* Lines 99-105 and _connect(), lines 288-289, with `response` in hand.
Allocated(c, response) ==
    IF response.XOR_RELAYED_ADDRESS # None
    THEN /\ relayed_address' = response.XOR_RELAYED_ADDRESS
         /\ refresh_handle' = RefreshOf(c)
         /\ pc' = [pc EXCEPT ![c] = "done", ![RefreshOf(c)] = "sleeping"]
         /\ connection_made' = connection_made + 1
         /\ UNCHANGED exc
    ELSE /\ Raise(c, "KeyError")
         /\ UNCHANGED <<relayed_address, refresh_handle, connection_made>>

\* Line 96: request.transaction_id = random_transaction_id()
RetryIdReused(c) == tid[c]
RetryId(c) == random_transaction_id(c)

\* Lines 96-97: the request gets a new transaction id and is sent again.
Retry(c, reg, key, n, r) ==
    LET request == [AllocateRequest(tid[c]) EXCEPT
                        !.transaction_id = RetryId(c)]
        out == Outgoing(request, key, n, r)
    IN /\ request.transaction_id \notin DOMAIN reg
       /\ transactions' = Register(reg, out)
       /\ sent' = sent \cup {out}
       /\ tid' = [tid EXCEPT ![c] = request.transaction_id]
       /\ pc' = [pc EXCEPT ![c] = "alloc2"]

\* Lines 84-105: connect() resumes with the outcome of its first ALLOCATE.
ConnectResume(c) ==
    /\ pc[c] = "alloc1"
    /\ transactions[tid[c]].future.cls # "PENDING"
    /\ exits' = exits \cup {<<tid[c], ExitHow(transactions[tid[c]].future)>>}
    /\ LET response == transactions[tid[c]].future
           reg == RequestFinally(transactions, tid[c])
       IN CASE response.cls = "RESPONSE" ->
                 /\ transactions' = reg
                 /\ Allocated(c, response)
                 /\ UNCHANGED <<integrity_key, nonce, realm, tid, sent>>
            [] response.cls = "TIMEOUT" ->
                 \* not a TransactionFailed: it leaves connect()
                 /\ transactions' = reg
                 /\ Raise(c, FailureOf(response))
                 /\ UNCHANGED <<integrity_key, nonce, realm, tid, sent,
                                relayed_address, refresh_handle, connection_made>>
            [] response.cls = "ERROR" /\ response.code # 401 ->
                 \* the except clause ends without raising
                 /\ transactions' = reg
                 /\ Allocated(c, response)
                 /\ UNCHANGED <<integrity_key, nonce, realm, tid, sent>>
            [] response.cls = "ERROR" /\ response.code = 401
                    /\ response.NONCE = None ->
                 /\ transactions' = reg
                 /\ Raise(c, "KeyError")
                 /\ UNCHANGED <<integrity_key, nonce, realm, tid, sent,
                                relayed_address, refresh_handle, connection_made>>
            [] response.cls = "ERROR" /\ response.code = 401
                    /\ response.NONCE # None /\ response.REALM = None ->
                 /\ transactions' = reg
                 /\ nonce' = response.NONCE
                 /\ Raise(c, "KeyError")
                 /\ UNCHANGED <<integrity_key, realm, tid, sent,
                                relayed_address, refresh_handle, connection_made>>
            [] response.cls = "ERROR" /\ response.code = 401
                    /\ response.NONCE # None /\ response.REALM # None ->
                 /\ nonce' = response.NONCE
                 /\ realm' = response.REALM
                 /\ integrity_key' =
                        make_integrity_key(username, response.REALM, password)
                 /\ Retry(c, reg, integrity_key', nonce', realm')
                 /\ UNCHANGED <<exc, relayed_address, refresh_handle,
                                connection_made>>
    /\ UNCHANGED <<channel_to_peer, peer_to_channel, channel_number,
                   must_cancel, written, connection_lost, locals,
                   streamVars, datagramVars>>

\* Lines 97-105: connect() resumes with the outcome of the retried ALLOCATE.
ConnectRetryResume(c) ==
    /\ pc[c] = "alloc2"
    /\ transactions[tid[c]].future.cls # "PENDING"
    /\ exits' = exits \cup {<<tid[c], ExitHow(transactions[tid[c]].future)>>}
    /\ transactions' = RequestFinally(transactions, tid[c])
    /\ LET response == transactions[tid[c]].future
       IN IF response.cls = "RESPONSE"
          THEN Allocated(c, response)
          ELSE /\ Raise(c, FailureOf(response))
               /\ UNCHANGED <<relayed_address, refresh_handle, connection_made>>
    /\ UNCHANGED <<channel_to_peer, peer_to_channel, channel_number,
                   integrity_key, nonce, realm, tid, sent,
                   must_cancel, written, connection_lost, locals,
                   streamVars, datagramVars>>

(***************************************************************************)
(* The answers: datagram_received() and the transaction's timer.           *)
(***************************************************************************)
\* Lines 126-137 and Transaction.response_received: a RESPONSE or ERROR whose
\* id is registered completes that transaction, unless it is already done.
ResponseReceived(t, message) ==
    /\ t \in DOMAIN transactions
    /\ transactions[t].future.cls = "PENDING"
    /\ message \in ServerResponses(transactions[t].request.message_method)
    /\ transactions' = [transactions EXCEPT ![t].future = message]
    /\ UNCHANGED <<channel_to_peer, peer_to_channel, channel_number,
                   integrity_key, nonce, realm, refresh_handle,
                   relayed_address, pc, tid, exc, must_cancel, sent,
                   written, connection_made, connection_lost, locals, exits,
                   streamVars, datagramVars>>

\* Transaction.run gives up: the future fails with TransactionTimeout.
Timeout(t) ==
    /\ t \in DOMAIN transactions
    /\ transactions[t].future.cls = "PENDING"
    /\ transactions' = [transactions EXCEPT ![t].future = TransactionTimeout]
    /\ UNCHANGED <<channel_to_peer, peer_to_channel, channel_number,
                   integrity_key, nonce, realm, refresh_handle,
                   relayed_address, pc, tid, exc, must_cancel, sent,
                   written, connection_made, connection_lost, locals, exits,
                   streamVars, datagramVars>>

(***************************************************************************)
(* refresh(), the task connect() starts.                                   *)
(***************************************************************************)
RefreshRequest(t, lifetime) ==
    [Message("REFRESH", t) EXCEPT !.LIFETIME = lifetime]

RefreshesSent ==
    Cardinality({m \in sent : m.message_method = "REFRESH" /\ m.LIFETIME # 0})

\* Lines 162-168: the sleep ends and a REFRESH is sent.
RefreshWake(r) ==
    /\ pc[r] = "sleeping"
    /\ r \notin must_cancel
    /\ RefreshesSent < MaxRefreshes
    /\ LET request == RefreshRequest(random_transaction_id(r), Lifetime)
           out == Outgoing(request, integrity_key, nonce, realm)
       IN /\ request.transaction_id \notin DOMAIN transactions
          /\ transactions' = Register(transactions, out)
          /\ sent' = sent \cup {out}
          /\ tid' = [tid EXCEPT ![r] = request.transaction_id]
    /\ pc' = [pc EXCEPT ![r] = "requesting"]
    /\ UNCHANGED <<channel_to_peer, peer_to_channel, channel_number,
                   integrity_key, nonce, realm, refresh_handle,
                   relayed_address, exc, must_cancel, written,
                   connection_made, connection_lost, locals, exits,
                   streamVars, datagramVars>>

\* Lines 168-170 and 161-162: the REFRESH is answered; the loop sleeps again,
\* or the task ends with the failure, which nothing awaits.
RefreshResume(r) ==
    /\ pc[r] = "requesting"
    /\ r \notin must_cancel
    /\ transactions[tid[r]].future.cls # "PENDING"
    /\ exits' = exits \cup {<<tid[r], ExitHow(transactions[tid[r]].future)>>}
    /\ transactions' = RequestFinally(transactions, tid[r])
    /\ IF transactions[tid[r]].future.cls = "RESPONSE"
       THEN /\ pc' = [pc EXCEPT ![r] = "sleeping"]
            /\ UNCHANGED exc
       ELSE Raise(r, FailureOf(transactions[tid[r]].future))
    /\ UNCHANGED <<channel_to_peer, peer_to_channel, channel_number,
                   integrity_key, nonce, realm, refresh_handle,
                   relayed_address, tid, must_cancel, sent, written,
                   connection_made, connection_lost, locals,
                   streamVars, datagramVars>>

\* The event loop throws CancelledError into the task at its await: in the
\* sleep of line 162, or in request(), whose finally clause then runs.
RefreshCancelled(r) ==
    /\ r \in must_cancel
    /\ must_cancel' = must_cancel \ {r}
    /\ IF pc[r] = "requesting"
       THEN /\ transactions' = RequestFinally(transactions, tid[r])
            /\ exits' = exits \cup {<<tid[r], "cancelled">>}
       ELSE UNCHANGED <<transactions, exits>>
    /\ Raise(r, "CancelledError")
    /\ UNCHANGED <<channel_to_peer, peer_to_channel, channel_number,
                   integrity_key, nonce, realm, refresh_handle,
                   relayed_address, tid, sent, written,
                   connection_made, connection_lost, locals,
                   streamVars, datagramVars>>

(***************************************************************************)
(* delete(), called directly or through TurnTransport.close().             *)
(***************************************************************************)
\* Lines 143-144: refresh_handle.cancel().  Cancelling a task that has ended
\* does nothing.
CancelNothing(handle) == must_cancel
CancelRequested(handle) ==
    IF handle # NoTask /\ Live(handle) THEN must_cancel \cup {handle}
    ELSE must_cancel

\* Lines 143-151: the refresh task is cancelled, the handle cleared and the
\* REFRESH with lifetime 0 sent.
DeleteCall(d) ==
    /\ NextIdle(d, Deletes)
    /\ must_cancel' = CancelRequested(refresh_handle)
    /\ refresh_handle' = NoTask
    /\ LET request == RefreshRequest(random_transaction_id(d), 0)
           out == Outgoing(request, integrity_key, nonce, realm)
           reg == IF must_cancel' # must_cancel
                  THEN CancelFuture(transactions, tid[refresh_handle])
                  ELSE transactions
       IN /\ request.transaction_id \notin DOMAIN reg
          /\ transactions' = Register(reg, out)
          /\ sent' = sent \cup {out}
          /\ tid' = [tid EXCEPT ![d] = request.transaction_id]
    /\ pc' = [pc EXCEPT ![d] = "waiting"]
    /\ UNCHANGED <<channel_to_peer, peer_to_channel, channel_number,
                   integrity_key, nonce, realm, relayed_address, exc, written,
                   connection_made, connection_lost, locals, exits,
                   streamVars, datagramVars>>

\* Lines 151-155: the teardown REFRESH is answered.
DeleteResume(d) ==
    /\ pc[d] = "waiting"
    /\ transactions[tid[d]].future.cls # "PENDING"
    /\ exits' = exits \cup {<<tid[d], ExitHow(transactions[tid[d]].future)>>}
    /\ transactions' = RequestFinally(transactions, tid[d])
    /\ IF transactions[tid[d]].future.cls = "RESPONSE"
       THEN /\ pc' = [pc EXCEPT ![d] = "done"]
            /\ connection_lost' = IF receiver THEN connection_lost + 1
                                  ELSE connection_lost
            /\ UNCHANGED exc
       ELSE /\ Raise(d, FailureOf(transactions[tid[d]].future))
            /\ UNCHANGED connection_lost
    /\ UNCHANGED <<channel_to_peer, peer_to_channel, channel_number,
                   integrity_key, nonce, realm, refresh_handle,
                   relayed_address, tid, must_cancel, sent, written,
                   connection_made, locals,
                   streamVars, datagramVars>>

(***************************************************************************)
(* send_data(), called directly or through TurnTransport.sendto().         *)
(***************************************************************************)
\* channel_bind(), lines 65-69
ChannelBindRequest(t, channel, addr) ==
    [Message("CHANNEL_BIND", t) EXCEPT !.CHANNEL_NUMBER = channel,
                                       !.XOR_PEER_ADDRESS = addr]

\* Lines 204-205: the ChannelData frame of this call.
ChannelData(s, channel, addr) == [call |-> s, channel |-> channel, addr |-> addr]

\* Line 194: self.peer_to_channel.get(addr)
LookupMisses(addr) == None
Lookup(addr) ==
    IF addr \in DOMAIN peer_to_channel THEN peer_to_channel[addr] ELSE None

\* Line 197: self.channel_number += 1
NotIncremented(n) == n
Incremented(n) == n + 1

\* Line 198: self.channel_to_peer[channel] = addr
BindChannel(map, channel, addr) ==
    [c \in DOMAIN map \cup {channel} |-> IF c = channel THEN addr ELSE map[c]]

\* Line 199: self.peer_to_channel[addr] = channel
PeerNotBound(map, addr, channel) == map
BindPeer(map, addr, channel) ==
    [a \in DOMAIN map \cup {addr} |-> IF a = addr THEN channel ELSE map[a]]

\* Lines 194-205: the channel of the peer is looked up; a new peer gets the
\* next channel number, recorded both ways, and a CHANNEL-BIND is sent.
SendCall(s, addr) ==
    /\ NextIdle(s, Sends)
    /\ NextPeer(addr)
    /\ IF Lookup(addr) # None
       THEN /\ written' = written \cup {ChannelData(s, Lookup(addr), addr)}
            /\ locals' = [locals EXCEPT
                    ![s] = [addr |-> addr, channel |-> Lookup(addr)]]
            /\ pc' = [pc EXCEPT ![s] = "done"]
            /\ UNCHANGED <<channel_to_peer, peer_to_channel, channel_number,
                           transactions, sent, tid>>
       ELSE LET channel == channel_number
                request == ChannelBindRequest(random_transaction_id(s),
                                              channel, addr)
                out == Outgoing(request, integrity_key, nonce, realm)
            IN /\ channel_number' = Incremented(channel_number)
               /\ channel_to_peer' = BindChannel(channel_to_peer, channel, addr)
               /\ peer_to_channel' = BindPeer(peer_to_channel, addr, channel)
               /\ locals' = [locals EXCEPT
                    ![s] = [addr |-> addr, channel |-> channel]]
               /\ request.transaction_id \notin DOMAIN transactions
               /\ transactions' = Register(transactions, out)
               /\ sent' = sent \cup {out}
               /\ tid' = [tid EXCEPT ![s] = request.transaction_id]
               /\ pc' = [pc EXCEPT ![s] = "binding"]
               /\ UNCHANGED written
    /\ UNCHANGED <<integrity_key, nonce, realm, refresh_handle,
                   relayed_address, exc, must_cancel, connection_made,
                   connection_lost, exits, streamVars, datagramVars>>

\* Lines 202-205: the CHANNEL-BIND is answered.
SendResume(s) ==
    /\ pc[s] = "binding"
    /\ transactions[tid[s]].future.cls # "PENDING"
    /\ exits' = exits \cup {<<tid[s], ExitHow(transactions[tid[s]].future)>>}
    /\ transactions' = RequestFinally(transactions, tid[s])
    /\ IF transactions[tid[s]].future.cls = "RESPONSE"
       THEN /\ written' = written
                    \cup {ChannelData(s, locals[s].channel, locals[s].addr)}
            /\ pc' = [pc EXCEPT ![s] = "done"]
            /\ UNCHANGED exc
       ELSE /\ Raise(s, FailureOf(transactions[tid[s]].future))
            /\ UNCHANGED written
    /\ UNCHANGED <<channel_to_peer, peer_to_channel, channel_number,
                   integrity_key, nonce, realm, refresh_handle,
                   relayed_address, tid, must_cancel, sent,
                   connection_made, connection_lost, locals,
                   streamVars, datagramVars>>

Next ==
    \/ \E c \in Connects : ConnectCall(c)
    \/ \E c \in Connects : ConnectResume(c)
    \/ \E c \in Connects : ConnectRetryResume(c)
    \/ \E t \in DOMAIN transactions :
          \E m \in ServerResponses(transactions[t].request.message_method) :
             ResponseReceived(t, m)
    \/ \E t \in DOMAIN transactions : Timeout(t)
    \/ \E r \in Refreshes : RefreshWake(r)
    \/ \E r \in Refreshes : RefreshResume(r)
    \/ \E r \in Refreshes : RefreshCancelled(r)
    \/ \E d \in Deletes : DeleteCall(d)
    \/ \E d \in Deletes : DeleteResume(d)
    \/ \E s \in Sends : \E a \in Peers : SendCall(s, a)
    \/ \E s \in Sends : SendResume(s)

Spec == Init /\ [][Next]_vars

TypeOK ==
    /\ DOMAIN transactions \subseteq {m.transaction_id : m \in sent}
    /\ channel_number \in ChannelBase..(ChannelBase + NumPeers)
    /\ must_cancel \subseteq Refreshes
    /\ refresh_handle \in Refreshes \cup {NoTask}

(***************************************************************************)
(* TurnStreamMixin: frames out of a TCP byte stream.  A byte is 0..255.    *)
(***************************************************************************)
\* is_channel_data: (data[0] & 0xC0) == 0x40
is_channel_data(data) == (data[1] \div 64) % 4 = 1

\* struct.unpack("!HH", buffer[0:4])[1]
UnpackLength(buf) == buf[3] * 256 + buf[4]

\* Lines 32-35
FullLengthOfChannelData(buf) == 4 + UnpackLength(buf)
FullLength(buf) ==
    IF is_channel_data(buf) THEN 4 + UnpackLength(buf)
    ELSE 20 + UnpackLength(buf)

\* Lines 30-41: the loop of data_received, from buffer `buf` with the slices
\* `out` dispatched so far; gives the buffer and the slices at its end.
RECURSIVE Drain(_, _)
Drain(buf, out) ==
    IF Len(buf) >= 4 /\ ~(Len(buf) < FullLength(buf))
    THEN Drain(SubSeq(buf, FullLength(buf) + 1, Len(buf)),
               Append(out, SubSeq(buf, 1, FullLength(buf))))
    ELSE <<buf, out>>

\* Lines 25-41
DataReceivedUnbuffered(data) ==
    /\ buffer' = <<>>
    /\ dispatched' = Append(dispatched, data)
    /\ split' = split
DataReceived(data) ==
    LET end == Drain(buffer \o data, dispatched)
    IN /\ buffer' = end[1]
       /\ dispatched' = end[2]
       /\ split' = (split \/ end[1] # <<>>)

\* The frames of the streams fed to data_received.
PayloadBytes == {1, 64}
RECURSIVE SeqsUpTo(_, _)
SeqsUpTo(S, n) ==
    IF n = 0 THEN {<<>>}
    ELSE SeqsUpTo(S, n - 1)
         \cup {Append(q, x) : q \in {p \in SeqsUpTo(S, n - 1) : Len(p) = n - 1},
                              x \in S}

\* [2 bytes channel number][2 bytes length][payload]
ChannelDataFrame(payload) ==
    <<64, 0, Len(payload) \div 256, Len(payload) % 256>> \o payload

\* 20-byte header (type, length, magic cookie, transaction id) and the body
StunFrame(body) ==
    <<1, 1, Len(body) \div 256, Len(body) % 256, 33, 18, 164, 66,
      0, 0, 0, 0, 0, 0, 0, 0, 0, 0, 0, 1>> \o body

Frames ==
    {ChannelDataFrame(p) : p \in SeqsUpTo(PayloadBytes, MaxPayload)}
    \cup {StunFrame(b) : b \in SeqsUpTo(PayloadBytes, MaxPayload)}

RECURSIVE Concat(_)
Concat(fs) == IF fs = <<>> THEN <<>> ELSE Head(fs) \o Concat(Tail(fs))

StreamInit ==
    /\ ClientInit
    /\ DatagramInit
    /\ frames \in SeqsUpTo(Frames, MaxFrames)
    /\ stream = Concat(frames)
    /\ buffer = <<>>
    /\ dispatched = <<>>
    /\ split = FALSE

\* The transport delivers the next bytes of the stream, in a chunk of any size.
Receive(n) ==
    /\ n \in 1..Len(stream)
    /\ DataReceived(SubSeq(stream, 1, n))
    /\ stream' = SubSeq(stream, n + 1, Len(stream))
    /\ UNCHANGED <<frames, clientVars, datagramVars>>

StreamNext == \E n \in 1..Len(stream) : Receive(n)

StreamSpec == StreamInit /\ [][StreamNext]_vars

(***************************************************************************)
(* datagram_received(): ChannelData goes to the receiver, a STUN response   *)
(* to its transaction.  A datagram is its bytes together with what          *)
(* stun.parse_message makes of them: the transaction id and the rest of the *)
(* message, or ValueError.                                                  *)
(***************************************************************************)
\* struct.unpack("!HH", data[0:4])[0]
UnpackChannel(data) == data[1] * 256 + data[2]

\* Line 119: self.channel_to_peer.get(channel)
PeerFor(channel) ==
    IF channel \in DOMAIN channel_to_peer THEN channel_to_peer[channel]
    ELSE None

\* Line 121: data[4 : 4 + length], of a datagram of at least 4 + length bytes
PayloadToEnd(data, length) == SubSeq(data, 5, Len(data))
Payload(data, length) == SubSeq(data, 5, 4 + length)

\* Lines 116-122: what the receiver is given for a ChannelData datagram.
Relayed(data) ==
    LET channel == UnpackChannel(data)
        length == UnpackLength(data)
    IN IF Len(data) >= length + 4 /\ receiver /\ PeerFor(channel) # None
       THEN <<[payload |-> Payload(data, length), peer |-> PeerFor(channel)]>>
       ELSE <<>>

\* stun.parse_message(data)
parse_message(datagram) == datagram.message

\* Lines 132-135: the message is a response or an error of a registered
\* transaction.
RoutedAnyClass(message, reg) == message.transaction_id \in DOMAIN reg
Routed(message, reg) ==
    /\ message.response.cls \in {"RESPONSE", "ERROR"}
    /\ message.transaction_id \in DOMAIN reg

\* Transaction.response_received: the first answer completes the future.
response_received(reg, t, response) ==
    IF reg[t].future.cls = "PENDING" THEN [reg EXCEPT ![t].future = response]
    ELSE reg

\* Lines 111-137
DatagramReceived(datagram) ==
    /\ incoming' = datagram
    /\ IF Len(datagram.data) >= 4 /\ is_channel_data(datagram.data)
       THEN /\ delivered' = Relayed(datagram.data)
            /\ parsed' = FALSE
            /\ UNCHANGED transactions
       ELSE LET message == parse_message(datagram)
            IN /\ delivered' = <<>>
               /\ parsed' = TRUE
               /\ transactions' =
                    IF message.response.cls # "ValueError"
                       /\ Routed(message, transactions)
                    THEN response_received(transactions,
                            message.transaction_id, message.response)
                    ELSE transactions
    /\ UNCHANGED <<channel_to_peer, peer_to_channel, channel_number,
                   integrity_key, nonce, realm, refresh_handle,
                   relayed_address, pc, tid, exc, must_cancel, sent,
                   written, connection_made, connection_lost, locals, exits,
                   streamVars>>

\* The datagrams the transport can hand over.  ChannelData: a channel number
\* bound or not, a declared length, and fewer, as many or more bytes after
\* the header.
ChannelDataDatagrams ==
    {[data |-> <<64, c, 0, l>> \o p, message |-> Unparseable] :
        c \in 0..NumPeers, l \in 0..MaxPayload,
        p \in SeqsUpTo(PayloadBytes, MaxPayload + 1)}

\* Bytes that are neither: too short, or no valid STUN header.
Garbage ==
    {[data |-> d, message |-> Unparseable] : d \in {<<>>, <<64, 0, 0>>, <<1>>}}

\* The id of a message no request of this client carried.
Forged == << <<"server", 0>>, 0 >>

\* STUN messages of every class, for ids registered now, registered once,
\* or never.
StunType == <<1, 1, 0, 0>>
Answers(t) ==
    (IF t \in DOMAIN transactions
     THEN ServerResponses(transactions[t].request.message_method)
     ELSE {Success(None), Error(403, None, None, None)})
    \cup {[Pending EXCEPT !.cls = "REQUEST"],
          [Pending EXCEPT !.cls = "INDICATION"]}
StunDatagrams ==
    {[data |-> StunType, message |-> [transaction_id |-> t, response |-> r]] :
        <<t, r>> \in UNION {{<<i, a>> : a \in Answers(i)} :
                        i \in {m.transaction_id : m \in sent} \cup {Forged}}}

Datagrams == ChannelDataDatagrams \cup Garbage \cup StunDatagrams

\* create_turn_endpoint, lines 322-326: the transport is handed out once
\* _connect() has returned.
Connected == \E c \in Connects : pc[c] = "done"

\* The client with its transport: connect() called and then send_data(),
\* their requests timing out or answered by whatever datagrams arrive.
DatagramNext ==
    \/ \E c \in Connects : ConnectCall(c)
    \/ \E c \in Connects : ConnectResume(c)
    \/ \E c \in Connects : ConnectRetryResume(c)
    \/ \E t \in DOMAIN transactions : Timeout(t)
    \/ \E s \in Sends : \E a \in Peers : Connected /\ SendCall(s, a)
    \/ \E s \in Sends : SendResume(s)
    \/ \E d \in Datagrams : DatagramReceived(d)

DatagramSpec == Init /\ [][DatagramNext]_vars

(***************************************************************************)
(* send_data() on a client that has sent to many peers already.            *)
(***************************************************************************)
\* Lines 196-199, n times: what send_data() to n distinct peers leaves in
\* the tables and the counter.
Bound(n) ==
    /\ channel_to_peer =
            [c \in ChannelBase..(ChannelBase + n - 1) |-> c - ChannelBase + 1]
    /\ peer_to_channel = [a \in 1..n |-> ChannelBase + a - 1]
    /\ channel_number = ChannelBase + n

\* The client with up to 0x4000 peers bound, as many as 0x4000..0x7FFF has
\* numbers, and none of its calls in progress; sent and written record what
\* it sends from here on.
ManyPeersInit ==
    /\ \E n \in (ChannelBase - MaxSends)..ChannelBase : Bound(n)
    /\ integrity_key = NoKey
    /\ nonce = None
    /\ realm = None
    /\ refresh_handle = NoTask
    /\ relayed_address = None
    /\ transactions = [t \in {} |-> 0]
    /\ pc = [c \in Calls |-> IF c \in Refreshes THEN "none" ELSE "idle"]
    /\ tid = [c \in Calls |-> NoId]
    /\ exc = [c \in Calls |-> ""]
    /\ must_cancel = {}
    /\ sent = {}
    /\ written = {}
    /\ connection_made = 0
    /\ connection_lost = 0
    /\ locals = [s \in Sends |-> [addr |-> 0, channel |-> 0]]
    /\ exits = {}
    /\ DatagramInit
    /\ buffer = <<>>
    /\ stream = <<>>
    /\ frames = <<>>
    /\ dispatched = <<>>
    /\ split = FALSE

\* send_data() to the first peer or to the next new one.
ManyPeersNext ==
    \/ \E s \in Sends :
          \E a \in {1, Cardinality(DOMAIN peer_to_channel) + 1} : SendCall(s, a)
    \/ \E s \in Sends : SendResume(s)
    \/ \E t \in DOMAIN transactions :
          \E m \in ServerResponses(transactions[t].request.message_method) :
             ResponseReceived(t, m)
    \/ \E t \in DOMAIN transactions : Timeout(t)

ManyPeersSpec == ManyPeersInit /\ [][ManyPeersNext]_vars

(***************************************************************************)
(* Properties of the client.                                               *)
(***************************************************************************)
InRequest == {p \in Calls : pc[p] \in Suspended}

\* C1: the registry holds exactly the ids of the request() calls suspended in
\* transaction.run(): every call that has ended, by a response, an error, a
\* timeout or the cancellation of its task, has removed its id, and with no
\* request() in progress the registry is empty.
C1_RegistryHoldsSuspendedRequests ==
    /\ DOMAIN transactions = {tid[p] : p \in InRequest}
    /\ \A e \in exits : e[1] \notin DOMAIN transactions
    /\ InRequest = {} => DOMAIN transactions = {}

\* delete() cancelled the refresh task while its REFRESH was in flight, other
\* requests returned and raised, and nothing is registered any more.
C1_Witness ==
    /\ \E e \in exits : e[2] = "cancelled"
    /\ \E e \in exits : e[2] = "returned"
    /\ \E e \in exits : e[2] = "raised"
    /\ InRequest = {}
    /\ DOMAIN transactions = {}

BindRequests(S) == {m \in S : m.message_method = "CHANNEL_BIND"}
Binds(a) == {m \in BindRequests(sent) : m.XOR_PEER_ADDRESS = a}
SendsTo(a) == {s \in Sends : pc[s] # "idle" /\ locals[s].addr = a}

\* C2: however many send_data() calls are made for a peer, and however they
\* interleave, exactly one CHANNEL-BIND is issued for it, and every call (and
\* every ChannelData frame) uses the channel number of that bind.
C2_BindIdempotence ==
    \A a \in Peers :
        /\ Cardinality(Binds(a)) = IF SendsTo(a) = {} THEN 0 ELSE 1
        /\ \A m \in Binds(a) :
              /\ \A s \in SendsTo(a) : locals[s].channel = m.CHANNEL_NUMBER
              /\ \A w \in written : w.addr = a => w.channel = m.CHANNEL_NUMBER

\* A second send_data() to a peer went through while the CHANNEL-BIND of the
\* first was still unanswered.
C2_Witness ==
    \E s1, s2 \in Sends :
        /\ s1 # s2
        /\ locals[s1].addr = locals[s2].addr
        /\ pc[s1] = "binding"
        /\ transactions[tid[s1]].future.cls = "PENDING"
        /\ pc[s2] = "done"

BoundPeers(S) == {m.XOR_PEER_ADDRESS : m \in BindRequests(S)}
IssuedChannels(S) == {m.CHANNEL_NUMBER : m \in BindRequests(S)}

\* C3: the k-th new peer gets channel number 0x4000 + k - 1: the numbers
\* issued to N distinct peers are N distinct numbers from 0x4000 up, each
\* larger than every number issued before it, and none is issued twice.
C3_ChannelNumbersIssued ==
    /\ IssuedChannels(sent) =
            ChannelBase .. (ChannelBase + Cardinality(BoundPeers(sent)) - 1)
    /\ \A m1, m2 \in BindRequests(sent) :
            m1 # m2 => m1.CHANNEL_NUMBER # m2.CHANNEL_NUMBER
    /\ \A m \in BindRequests(sent) : m.CHANNEL_NUMBER >= ChannelBase
C3_IssuedInOrder ==
    \A m \in BindRequests(sent') \ BindRequests(sent) :
        /\ m.CHANNEL_NUMBER = ChannelBase + Cardinality(BoundPeers(sent))
        /\ \A old \in IssuedChannels(sent) : old < m.CHANNEL_NUMBER
C3_ChannelNumberUniqueness ==
    [] C3_ChannelNumbersIssued /\ [][C3_IssuedInOrder]_vars

\* As many channel numbers were issued as the model has peers.
C3_Witness ==
    /\ Cardinality(BoundPeers(sent)) = NumPeers
    /\ Cardinality(IssuedChannels(sent)) = NumPeers

\* C4: channel_to_peer and peer_to_channel are inverses of each other, and
\* every recorded channel number is below the counter channel_number.
C4_BindingTableBijection ==
    /\ \A c \in DOMAIN channel_to_peer :
          /\ channel_to_peer[c] \in DOMAIN peer_to_channel
          /\ peer_to_channel[channel_to_peer[c]] = c
          /\ c < channel_number
    /\ \A a \in DOMAIN peer_to_channel :
          /\ peer_to_channel[a] \in DOMAIN channel_to_peer
          /\ channel_to_peer[peer_to_channel[a]] = a

C4_Witness ==
    /\ Cardinality(DOMAIN channel_to_peer) = NumPeers
    /\ Cardinality(DOMAIN peer_to_channel) = NumPeers

Allocates(c, S) ==
    {m \in S : m.message_method = "ALLOCATE" /\ m.transaction_id[1] = c}

\* A 401 that carries the NONCE and the REALM of the challenge.
Challenge(future) ==
    /\ future.cls = "ERROR"
    /\ future.code = 401
    /\ future.NONCE # None
    /\ future.REALM # None

\* C5: when connect() resumes with a 401 challenge to its first ALLOCATE, it
\* stores the nonce and the realm of the response, derives the key and sends
\* exactly one more ALLOCATE, with these credentials and an id no request has
\* carried; when the retried ALLOCATE fails, connect() raises that failure
\* and sends nothing; it never sends a third ALLOCATE.
C5_RetryStep ==
    \A c \in Connects :
        /\ (/\ pc[c] = "alloc1"
            /\ pc'[c] # "alloc1"
            /\ Challenge(transactions[tid[c]].future)) =>
              LET response == transactions[tid[c]].future
              IN /\ nonce' = response.NONCE
                 /\ realm' = response.REALM
                 /\ integrity_key' =
                        make_integrity_key(username, response.REALM, password)
                 /\ pc'[c] = "alloc2"
                 /\ \E m \in sent' :
                       /\ sent' \ sent = {m}
                       /\ m.message_method = "ALLOCATE"
                       /\ m.transaction_id # tid[c]
                       /\ m.transaction_id \notin
                             {x.transaction_id : x \in sent}
                       /\ m.transaction_id \in DOMAIN transactions'
                       /\ m.USERNAME = username
                       /\ m.NONCE = response.NONCE
                       /\ m.REALM = response.REALM
                       /\ m.MESSAGE_INTEGRITY = integrity_key'
        /\ (/\ pc[c] = "alloc2"
            /\ pc'[c] # "alloc2"
            /\ transactions[tid[c]].future.cls # "RESPONSE") =>
              /\ pc'[c] = "raised"
              /\ exc'[c] = FailureOf(transactions[tid[c]].future)
              /\ sent' = sent
        /\ pc[c] \in {"alloc2", "done", "raised"} =>
              Allocates(c, sent') = Allocates(c, sent)
C5_AuthenticationRetry ==
    /\ [](\A c \in Connects : Cardinality(Allocates(c, sent)) <= 2)
    /\ [][C5_RetryStep]_vars

\* The retried ALLOCATE was answered with another 401 and connect() raised.
C5_Witness ==
    \E c \in Connects :
        /\ pc[c] = "raised"
        /\ exc[c] = "TransactionError"
        /\ Cardinality(Allocates(c, sent)) = 2
        /\ \E m \in Allocates(c, sent) : m.MESSAGE_INTEGRITY # NoKey

\* C6: when the first ALLOCATE fails with an error other than 401, or times
\* out, connect() raises the transaction's failure, relayed_address stays
\* unset, no refresh task is started and connection_made is not called.
C6_FailedAllocateStep ==
    \A c \in Connects :
        (/\ pc[c] = "alloc1"
         /\ pc'[c] # "alloc1"
         /\ \/ transactions[tid[c]].future.cls = "TIMEOUT"
            \/ /\ transactions[tid[c]].future.cls = "ERROR"
               /\ transactions[tid[c]].future.code # 401) =>
            /\ pc'[c] = "raised"
            /\ exc'[c] = FailureOf(transactions[tid[c]].future)
            /\ relayed_address' = relayed_address
            /\ refresh_handle' = refresh_handle
            /\ pc'[RefreshOf(c)] = "none"
            /\ connection_made' = connection_made
C6_FailedAllocateLeavesIdle == [][C6_FailedAllocateStep]_vars

Teardowns(S) == {m \in S : m.message_method = "REFRESH" /\ m.LIFETIME = 0}

\* C7: a delete() called after an earlier delete() has cancelled the refresh
\* task of the allocated client sends no second teardown REFRESH.
C7_SecondDeleteStep ==
    \A d \in Deletes :
        (/\ pc[d] = "idle"
         /\ pc'[d] # "idle"
         /\ \E r \in Refreshes : r \in must_cancel \/ exc[r] = "CancelledError")
            => Teardowns(sent') = Teardowns(sent)
C7_DeleteIdempotence == [][C7_SecondDeleteStep]_vars

\* C8: the run of delete() that sends the lifetime-0 REFRESH has cancelled the
\* refresh task and cleared refresh_handle, and a task so cancelled sends no
\* further request; connection_lost is called only by a delete() resuming
\* with a success response to its teardown REFRESH, and not when it failed.
C8_DeleteStep ==
    /\ \A d \in Deletes :
          /\ (pc[d] = "idle" /\ pc'[d] # "idle") =>
                /\ refresh_handle' = NoTask
                /\ (refresh_handle # NoTask /\ Live(refresh_handle)) =>
                        refresh_handle \in must_cancel'
                /\ \E m \in Teardowns(sent') \ Teardowns(sent) :
                        m.transaction_id = tid'[d]
                /\ connection_lost' = connection_lost
          /\ (pc[d] = "waiting" /\ pc'[d] # "waiting") =>
                IF transactions[tid[d]].future.cls = "RESPONSE"
                THEN pc'[d] = "done" /\ connection_lost' = connection_lost + 1
                ELSE pc'[d] = "raised" /\ connection_lost' = connection_lost
    /\ connection_lost' # connection_lost =>
          \E d \in Deletes :
              /\ pc[d] = "waiting"
              /\ pc'[d] = "done"
              /\ transactions[tid[d]].future.cls = "RESPONSE"
    /\ \A r \in must_cancel :
          \A m \in sent' \ sent : m.transaction_id[1] # r
C8_DeleteOrdering == [][C8_DeleteStep]_vars

\* delete() cancelled a refresh task whose REFRESH was in flight, got a
\* success response to its teardown REFRESH and called connection_lost.
C8_Witness ==
    /\ \E d \in Deletes : pc[d] = "done"
    /\ connection_lost = 1
    /\ \E r \in Refreshes : exc[r] = "CancelledError"
    /\ \E e \in exits : e[2] = "cancelled"

\* Nothing is running or scheduled: only a new call of the application can
\* make the client act.
Quiescent ==
    /\ InRequest = {}
    /\ must_cancel = {}
    /\ \A r \in Refreshes : pc[r] # "sleeping"

\* C9: a failed REFRESH of the background loop never ends with the loop dead
\* and the receiver not notified.
C9_RefreshFailureSurfaced ==
    \A r \in Refreshes :
        (pc[r] = "raised" /\ exc[r] = "TransactionError" /\ Quiescent)
            => connection_lost > 0

(***************************************************************************)
(* Properties of the stream reassembly.                                    *)
(***************************************************************************)
IsPrefix(p, q) == Len(p) <= Len(q) /\ p = SubSeq(q, 1, Len(p))

\* C10: however the stream of complete frames is cut into chunks, the slices
\* dispatched are the frames of the stream, in order, and once the whole
\* stream has been received every frame was dispatched and the buffer is
\* empty.
C10_ChunkingIndependent ==
    /\ IsPrefix(dispatched, frames)
    /\ stream = <<>> => dispatched = frames /\ buffer = <<>>

\* A ChannelData frame and a STUN message were received in chunks that ended
\* inside a frame.
C10_Witness ==
    /\ stream = <<>>
    /\ Len(frames) = MaxFrames
    /\ split
    /\ dispatched = frames
    /\ \E i \in DOMAIN frames : is_channel_data(frames[i])
    /\ \E i \in DOMAIN frames : ~is_channel_data(frames[i])

(***************************************************************************)
(* Properties of datagram_received.                                        *)
(***************************************************************************)
\* A call of datagram_received shows in what it was given or what it did.
Handled == datagramVars' # datagramVars

TopBits01(data) == data[1] \in 64..127

\* C11: a datagram of at least 4 bytes whose first byte has top bits 01 is
\* ChannelData: when it has the 4 + length bytes it declares and its channel
\* number is bound, the receiver gets one datagram_received(payload, peer),
\* the payload being the `length` bytes after the header and the peer the
\* address bound to the channel; when the channel is unbound or bytes are
\* missing the receiver gets nothing; either way the datagram is not parsed
\* as STUN and no transaction sees it.  Fewer than 4 such bytes deliver
\* nothing to the receiver or to a transaction.
C11_Step ==
    (Handled /\ incoming'.data # <<>> /\ TopBits01(incoming'.data)) =>
        LET data == incoming'.data
        IN IF Len(data) < 4
           THEN delivered' = <<>> /\ transactions' = transactions
           ELSE LET channel == data[1] * 256 + data[2]
                    length == data[3] * 256 + data[4]
                IN /\ parsed' = FALSE
                   /\ transactions' = transactions
                   /\ IF Len(data) >= 4 + length
                         /\ channel \in DOMAIN channel_to_peer
                      THEN delivered' =
                              <<[payload |-> [i \in 1..length |-> data[4 + i]],
                                 peer |-> channel_to_peer[channel]]>>
                      ELSE delivered' = <<>>
C11_RelayDemultiplexing == [][C11_Step]_vars

\* The payload of a datagram longer than it declares went to the receiver,
\* with the peer that was bound last.
C11_Witness ==
    /\ Len(delivered) = 1
    /\ Len(delivered[1].payload) = MaxPayload
    /\ Len(incoming.data) > 4 + MaxPayload
    /\ delivered[1].peer = NumPeers
    /\ channel_to_peer[ChannelBase + NumPeers - 1] = NumPeers

\* C12: datagram_received completes a transaction only with a message of
\* class RESPONSE or ERROR that carries the transaction's id, registered and
\* not yet answered; any other message (id not registered, bytes that do not
\* parse, class REQUEST or INDICATION) changes nothing: the registry and its
\* other transactions, the binding tables, the credentials and every
\* coroutine are as before.
C12_Step ==
    Handled =>
        LET message == incoming'.message
        IN /\ UNCHANGED <<channel_to_peer, peer_to_channel, channel_number,
                          integrity_key, nonce, realm, refresh_handle,
                          relayed_address, pc, tid, exc, sent, written>>
           /\ DOMAIN transactions' = DOMAIN transactions
           /\ \A t \in DOMAIN transactions :
                 transactions'[t] # transactions[t] =>
                    /\ parsed'
                    /\ message.transaction_id = t
                    /\ message.response.cls \in {"RESPONSE", "ERROR"}
                    /\ transactions[t].future = Pending
                    /\ transactions'[t] =
                          [transactions[t] EXCEPT !.future = message.response]
           /\ (\/ message.response.cls \notin {"RESPONSE", "ERROR"}
               \/ message.transaction_id \notin DOMAIN transactions)
                 => transactions' = transactions
C12_ResponseRouting == [][C12_Step]_vars

\* With the CHANNEL-BIND requests of two send_data() calls outstanding, an
\* error response completed one of them and the other is still pending.
C12_Witness ==
    \E t1, t2 \in DOMAIN transactions :
        /\ t1 # t2
        /\ incoming.message.transaction_id = t1
        /\ transactions[t1].future = incoming.message.response
        /\ transactions[t1].future.cls = "ERROR"
        /\ transactions[t2].future = Pending
        /\ integrity_key # NoKey

(***************************************************************************)
(* Properties of the client, continued.                                    *)
(***************************************************************************)
Failed(future) == future.cls \in {"ERROR", "TIMEOUT"}

\* C13: when the CHANNEL-BIND of a peer fails, no send_data() call made for
\* that peer up to then has completed successfully, and the calls waiting for
\* the bind end with its failure.
C13_Step ==
    /\ \A t \in DOMAIN transactions \cap DOMAIN transactions' :
          (/\ transactions[t].request.message_method = "CHANNEL_BIND"
           /\ transactions[t].future = Pending
           /\ Failed(transactions'[t].future)) =>
              \A s \in SendsTo(transactions[t].request.XOR_PEER_ADDRESS) :
                  pc[s] # "done"
    /\ \A s \in Sends :
          (/\ pc[s] = "binding"
           /\ pc'[s] # "binding"
           /\ Failed(transactions[tid[s]].future)) => pc'[s] = "raised"
C13_BindFailurePropagates == [][C13_Step]_vars

\* C15: integrity_key, realm and nonce are set together: in every state all
\* three are present or none is.
C15_CredentialsSetTogether ==
    \/ integrity_key = NoKey /\ realm = None /\ nonce = None
    \/ integrity_key # NoKey /\ realm # None /\ nonce # None

\* connect() returned, and a delete() called after that got the success
\* response to its teardown REFRESH.
Deleted ==
    /\ \E c \in Connects : pc[c] = "done"
    /\ refresh_handle = NoTask
    /\ \E d \in Deletes : pc[d] = "done"

\* C16: once the allocation is deleted the client sends no request.
C16_Step == Deleted => sent' = sent
C16_NoRequestAfterDeleted == [][C16_Step]_vars

\* C19: a ChannelData frame is written for a peer only when the CHANNEL-BIND
\* of its channel has returned successfully.
C19_Step ==
    \A w \in written' \ written :
        \E m \in Binds(w.addr) :
            /\ m.CHANNEL_NUMBER = w.channel
            /\ <<m.transaction_id, "returned">> \in exits'
C19_ChannelDataAfterBind == [][C19_Step]_vars

\* A refresh task that can still send: started, not ended, cancel() not called.
LiveRefreshes == {r \in Refreshes : Live(r) /\ r \notin must_cancel}

\* C20: at most one refresh task is live, refresh_handle is that task, and
\* once a delete() has been called no REFRESH with a lifetime other than 0 is
\* sent.
C20_Step ==
    (\E d \in Deletes : pc[d] # "idle") =>
        \A m \in sent' \ sent : m.message_method = "REFRESH" => m.LIFETIME = 0
C20_SingleRefreshStopsAtDelete ==
    /\ [](/\ Cardinality(LiveRefreshes) <= 1
          /\ \A r \in LiveRefreshes : refresh_handle = r)
    /\ [][C20_Step]_vars

\* C14: every channel number in the tables, in a CHANNEL-BIND request or in
\* a ChannelData header is in 0x4000..0x7FFF, however many peers were sent
\* to.
C14_ChannelNumbersInRange ==
    LET InRange(c) == c \in ChannelBase..(2 * ChannelBase - 1)
    IN /\ \A c \in DOMAIN channel_to_peer : InRange(c)
       /\ \A a \in DOMAIN peer_to_channel : InRange(peer_to_channel[a])
       /\ \A m \in BindRequests(sent) : InRange(m.CHANNEL_NUMBER)
       /\ \A w \in written : InRange(w.channel)

(***************************************************************************)
(* Properties of the stream reassembly, continued.                         *)
(***************************************************************************)
\* The length a frame declares: 4 + L with top bits 01 in its first byte,
\* 20 + L otherwise, L being bytes 2..3 read big-endian.
Declared(bytes) ==
    (IF bytes[1] \in 64..127 THEN 4 ELSE 20) + bytes[3] * 256 + bytes[4]

\* C17: every slice data_received dispatches is one whole frame, as long as
\* its own header declares, and what a call leaves in the buffer is shorter
\* than a header or shorter than the frame its header declares.
C17_NoPartialFrame ==
    /\ \A i \in DOMAIN dispatched :
          /\ Len(dispatched[i]) >= 4
          /\ Len(dispatched[i]) = Declared(dispatched[i])
    /\ Len(buffer) < 4 \/ Len(buffer) < Declared(buffer)

\* A ChannelData frame was dispatched and the buffer holds the first bytes
\* of a STUN message, its length field among them, the rest still to come.
C17_Witness ==
    /\ Len(dispatched) >= 1
    /\ is_channel_data(dispatched[1])
    /\ Len(buffer) >= 4
    /\ ~is_channel_data(buffer)
    /\ Len(buffer) < 20 + UnpackLength(buffer)
    /\ stream # <<>>

(***************************************************************************)
(* Properties of the client: credentials.                                  *)
(***************************************************************************)
Authenticated(S) == {m \in S : m.MESSAGE_INTEGRITY # NoKey}

\* C18: a request carries USERNAME, REALM, NONCE, MESSAGE-INTEGRITY and
\* FINGERPRINT exactly when integrity_key is set as it is sent, and then
\* they are the realm, the nonce and the key the client holds: the ALLOCATE
\* sent before a challenge carries none, every request sent once a 401 was
\* processed carries them.
C18_Step ==
    \A m \in sent' \ sent :
        IF integrity_key' # NoKey
        THEN /\ m.USERNAME = username
             /\ m.REALM = realm' /\ realm' # None
             /\ m.NONCE = nonce' /\ nonce' # None
             /\ m.MESSAGE_INTEGRITY = integrity_key'
             /\ m.FINGERPRINT
        ELSE /\ m.USERNAME = ""
             /\ m.REALM = None
             /\ m.NONCE = None
             /\ m.MESSAGE_INTEGRITY = NoKey
             /\ ~m.FINGERPRINT
C18_CredentialsAttached == [][C18_Step]_vars

\* After a challenge the client sent an ALLOCATE, a REFRESH of the loop, a
\* CHANNEL-BIND and a teardown REFRESH, all with credentials; the ALLOCATE
\* before the challenge had none.
C18_Witness ==
    /\ \E m \in sent \ Authenticated(sent) : m.message_method = "ALLOCATE"
    /\ \E m \in Authenticated(sent) : m.message_method = "ALLOCATE"
    /\ \E m \in Authenticated(sent) : m.message_method = "CHANNEL_BIND"
    /\ \E m \in Authenticated(sent) \ Teardowns(sent) :
            m.message_method = "REFRESH"
    /\ \E m \in Authenticated(sent) : m \in Teardowns(sent)

====
